---------------------------- MODULE Spec2Model ----------------------------
(***************************************************************************)
(* Post-harvest decision support scripts: the rule tables and the lookup   *)
(* functions of PHL.py and of the four dashboard variants, with the        *)
(* dashboards' selectors, result button, cross-crop comparison and the     *)
(* batch report of PHL.py.                                                 *)
(*                                                                         *)
(* A Python str is a sequence of pieces.  Dictionary keys, risk levels and *)
(* every other string the code transforms or matches are spelled character  *)
(* by character; prose the code only passes through is a single piece.     *)
(* A Python dict is the sequence of its <<key, value>> items in insertion   *)
(* order.                                                                  *)
(***************************************************************************)
EXTENDS Integers, Sequences, FiniteSets, TLC

VARIABLES
    script,       \* which of the five scripts this process runs
    mode,         \* as the page it is, or its functions called directly
    risk_rules,        \* the script's rule table (storage_risk_rules / CROP_RISK_RULES)
    crop,         \* value of the crop selectbox
    storage,      \* value of the storage-method selectbox
    call,         \* arguments of the last call of the lookup function
    result,       \* the dict that call returned
    pinned,       \* an earlier call of assess_storage_risk, kept for comparison
    page,         \* what the last button press put on the page
    chart_data,   \* rows built by the last cross-crop comparison
    report        \* the batch report of PHL.py

vars == <<script, mode, risk_rules, crop, storage, call, result, pinned, page, chart_data, report>>

-----------------------------------------------------------------------------
(* Python values *)

None == <<"None">>

T(s) == <<s>>

\* truthiness of a str-or-None value, as `x or ...` and `if x` test it
Truthy(x) == x # None /\ x # <<>>

UpperChars == <<"A", "B", "C", "D", "E", "F", "G", "H", "I", "J", "K", "L", "M",
                "N", "O", "P", "Q", "R", "S", "T", "U", "V", "W", "X", "Y", "Z">>

LowerChars == <<"a", "b", "c", "d", "e", "f", "g", "h", "i", "j", "k", "l", "m",
                "n", "o", "p", "q", "r", "s", "t", "u", "v", "w", "x", "y", "z">>

LowerChar(c) ==
    IF \E i \in 1..Len(UpperChars) : UpperChars[i] = c
    THEN LowerChars[CHOOSE i \in 1..Len(UpperChars) : UpperChars[i] = c]
    ELSE c

UpperChar(c) ==
    IF \E i \in 1..Len(LowerChars) : LowerChars[i] = c
    THEN UpperChars[CHOOSE i \in 1..Len(LowerChars) : LowerChars[i] = c]
    ELSE c

\* str.lower()
lower(s) == [i \in 1..Len(s) |-> LowerChar(s[i])]

\* str.capitalize(): first character upper-cased, the rest lower-cased
capitalize(s) == [i \in 1..Len(s) |-> IF i = 1 THEN UpperChar(s[i]) ELSE LowerChar(s[i])]

RECURSIVE strip(_, _)
\* s.strip(ch) for a one-character ch
strip(s, ch) ==
    IF Len(s) > 0 /\ s[1] = ch THEN strip(Tail(s), ch)
    ELSE IF Len(s) > 0 /\ s[Len(s)] = ch THEN strip(SubSeq(s, 1, Len(s) - 1), ch)
    ELSE s

\* list(d.keys())
keys(d) == [i \in 1..Len(d) |-> d[i][1]]

\* k in d
HasKey(d, k) == \E i \in 1..Len(d) : d[i][1] = k

\* d[k], for a key the dict has
Item(d, k) == d[CHOOSE i \in 1..Len(d) : d[i][1] = k][2]

\* whether d[k1][k2] raises KeyError
KeyError2(d, k1, k2) == ~HasKey(d, k1) \/ ~HasKey(Item(d, k1), k2)

-----------------------------------------------------------------------------
(* String literals *)

s__sack == <<" ", "s", "a", "c", "k">>
s__tomato == <<" ", "t", "o", "m", "a", "t", "o">>
s_backyard_pit == <<"b", "a", "c", "k", "y", "a", "r", "d", " ", "p", "i", "t">>
s_barn == <<"b", "a", "r", "n">>
s_box == <<"b", "o", "x">>
s_bunch_hanging == <<"b", "u", "n", "c", "h", " ", "h", "a", "n", "g", "i", "n", "g">>
s_cardboard_box == <<"c", "a", "r", "d", "b", "o", "a", "r", "d", " ", "b", "o", "x">>
s_Cassava == <<"C", "a", "s", "s", "a", "v", "a">>
s_cassava == <<"c", "a", "s", "s", "a", "v", "a">>
s_cold_chain == <<"c", "o", "l", "d", " ", "c", "h", "a", "i", "n">>
s_cold_room == <<"c", "o", "l", "d", " ", "r", "o", "o", "m">>
s_cold_storage == <<"c", "o", "l", "d", " ", "s", "t", "o", "r", "a", "g", "e">>
s_crib == <<"c", "r", "i", "b">>
s_Dry == <<"D", "r", "y">>
s_durian == <<"d", "u", "r", "i", "a", "n">>
s_east == <<"e", "a", "s", "t">>
s_evap_cooler == <<"e", "v", "a", "p", ".", " ", "c", "o", "o", "l", "e", "r">>
s_High == <<"H", "i", "g", "h">>
s_high == <<"h", "i", "g", "h">>
s_Low == <<"L", "o", "w">>
s_low == <<"l", "o", "w">>
s_maize == <<"m", "a", "i", "z", "e">>
s_Medium == <<"M", "e", "d", "i", "u", "m">>
s_medium == <<"m", "e", "d", "i", "u", "m">>
s_mesh_bags == <<"m", "e", "s", "h", " ", "b", "a", "g", "s">>
s_Middle_Belt == <<"M", "i", "d", "d", "l", "e", "-", "B", "e", "l", "t">>
s_middle_belt == <<"m", "i", "d", "d", "l", "e", "-", "b", "e", "l", "t">>
s_N_A == <<"N", "/", "A">>
s_north == <<"n", "o", "r", "t", "h">>
s_onion == <<"o", "n", "i", "o", "n">>
s_open_basket == <<"o", "p", "e", "n", " ", "b", "a", "s", "k", "e", "t">>
s_open_field == <<"o", "p", "e", "n", " ", "f", "i", "e", "l", "d">>
s_open_pile == <<"o", "p", "e", "n", " ", "p", "i", "l", "e">>
s_open_sack == <<"o", "p", "e", "n", " ", "s", "a", "c", "k">>
s_open_shed == <<"o", "p", "e", "n", " ", "s", "h", "e", "d">>
s_pit == <<"p", "i", "t">>
s_Plantain == <<"P", "l", "a", "n", "t", "a", "i", "n">>
s_plantain == <<"p", "l", "a", "n", "t", "a", "i", "n">>
s_processed_flour == <<"p", "r", "o", "c", "e", "s", "s", "e", "d", " ", "f", "l", "o", "u", "r">>
s_ripening_room == <<"r", "i", "p", "e", "n", "i", "n", "g", " ", "r", "o", "o", "m">>
s_Sack == <<"S", "a", "c", "k">>
s_sack == <<"s", "a", "c", "k">>
s_shaded_shed == <<"s", "h", "a", "d", "e", "d", " ", "s", "h", "e", "d">>
s_silo == <<"s", "i", "l", "o">>
s_SOUTH == <<"S", "O", "U", "T", "H">>
s_South == <<"S", "o", "u", "t", "h">>
s_south == <<"s", "o", "u", "t", "h">>
s_Tomato == <<"T", "o", "m", "a", "t", "o">>
s_tomato == <<"t", "o", "m", "a", "t", "o">>
s_Transition == <<"T", "r", "a", "n", "s", "i", "t", "i", "o", "n">>
s_trench == <<"t", "r", "e", "n", "c", "h">>
s_Unknown == <<"U", "n", "k", "n", "o", "w", "n">>
s_warehouse_well_ventilated == <<"w", "a", "r", "e", "h", "o", "u", "s", "e", " ", "(", "w", "e", "l", "l", "-", "v", "e", "n", "t", "i", "l", "a", "t", "e", "d", ")">>
s_warehouse == <<"w", "a", "r", "e", "h", "o", "u", "s", "e">>
s_Wet == <<"W", "e", "t">>
s_yam == <<"y", "a", "m">>

-----------------------------------------------------------------------------
(* The tables, as the scripts spell them *)

region_season == <<
    <<s_north, s_Dry>>,
    <<s_south, s_Wet>>,
    <<s_middle_belt, s_Transition>>>>

storage_risk_rules == <<
    <<s_tomato, <<
        <<s_open_shed, <<s_High, T("Tomatoes are highly perishable and degrade fast in open-air storage."),
            T("Use evaporative cooling or cold storage.")>>>>,
        <<s_sack, <<s_High, T("Sacks retain heat and moisture, accelerating spoilage for tomatoes."),
            T("Use ventilated crates or shaded baskets.")>>>>,
        <<s_evap_cooler, <<s_Medium, T("Evaporative coolers reduce temperature but need constant water and shade."),
            T("Ensure cooler is well-maintained.")>>>>,
        <<s_cold_room, <<s_Low, T("Cold storage preserves tomato freshness and extends shelf life."),
            None>>>>>>>>,
    <<s_cassava, <<
        <<s_open_shed, <<s_High, T("Cassava ferments within 2-3 days if not processed or cooled."),
            T("Process quickly or use evaporative cooling.")>>>>,
        <<s_sack, <<s_High, T("Sacks speed up fermentation and limit airflow."),
            T("Use ventilated containers or immediate processing.")>>>>,
        <<s_evap_cooler, <<s_Medium, T("Slows fermentation but doesn't stop it."),
            T("Process as soon as possible.")>>>>,
        <<s_cold_room, <<s_Low, T("Cold slows microbial action and keeps cassava usable longer."),
            None>>>>>>>>,
    <<s_yam, <<
        <<s_open_shed, <<s_Medium, T("Yam is less sensitive but can sprout or rot in moist environments."),
            T("Store on raised wooden racks.")>>>>,
        <<s_sack, <<s_Medium, T("Risk of physical bruising and airflow restriction."),
            T("Use ventilated stacks.")>>>>,
        <<s_warehouse_well_ventilated, <<s_Low, T("Properly stored yam in ventilated warehouse lasts several weeks."),
            None>>>>>>>>,
    <<s_plantain, <<
        <<s_open_shed, <<s_High, T("Ripens fast in heat and becomes mushy."),
            T("Use cool ventilated area.")>>>>,
        <<s_sack, <<s_High, T("Promotes heat and bruising."),
            T("Use shallow trays or hanging bunches.")>>>>,
        <<s_evap_cooler, <<s_Medium, T("Slows ripening but needs constant monitoring."),
            None>>>>,
        <<s_cold_room, <<s_Low, T("Best option to delay ripening significantly."),
            None>>>>>>>>,
    <<s_onion, <<
        <<s_open_shed, <<s_Medium, T("Dry onion stores well in open shade but needs airflow."),
            T("Hang in mesh bags.")>>>>,
        <<s_sack, <<s_Medium, T("Can trap moisture if not stored dry."),
            T("Ensure proper ventilation.")>>>>,
        <<s_warehouse_well_ventilated, <<s_Low, T("Ideal for storing dry onions."),
            None>>>>>>>>,
    <<s_maize, <<
        <<s_open_shed, <<s_Medium, T("Shelled maize risks mold if humidity is high."),
            T("Ensure dry conditions.")>>>>,
        <<s_sack, <<s_High, T("Sacks retain moisture if maize is not well dried."),
            T("Use hermetic bags.")>>>>,
        <<s_warehouse_well_ventilated, <<s_Low, T("Dry maize stores well in ventilated space."),
            None>>>>>>>>>>

test_inputs == <<
    <<s_tomato, s_sack>>,
    <<s_cassava, s_open_shed>>,
    <<s_yam, s_warehouse_well_ventilated>>,
    <<s_plantain, s_evap_cooler>>,
    <<s_onion, s_sack>>,
    <<s_maize, s_warehouse_well_ventilated>>>>

storage_risk_rules_0faeb1 == <<
    <<s_tomato, <<
        <<s_open_shed, <<s_High, T("Tomatoes degrade fast in open-air storage."),
            T("Use evaporative cooling or cold storage.")>>>>,
        <<s_sack, <<s_High, T("Sacks retain heat/moisture, accelerating spoilage."),
            T("Use ventilated crates.")>>>>,
        <<s_evap_cooler, <<s_Medium, T("Reduces temperature but needs maintenance."),
            T("Ensure water supply.")>>>>,
        <<s_cold_room, <<s_Low, T("Preserves freshness effectively."),
            None>>>>>>>>>>

storage_risk_rules_6b08ea == <<
    <<s_tomato, <<
        <<s_open_shed, <<s_High, T("Tomatoes degrade fast in open-air storage."),
            T("Use evaporative cooling or cold storage.")>>>>,
        <<s_sack, <<s_High, T("Sacks retain heat/moisture, accelerating spoilage."),
            T("Use ventilated crates.")>>>>,
        <<s_evap_cooler, <<s_Medium, T("Reduces temperature but needs maintenance."),
            T("Ensure water supply.")>>>>,
        <<s_cold_room, <<s_Low, T("Preserves freshness effectively."),
            None>>>>>>>>,
    <<s_cassava, <<
        <<s_open_shed, <<s_High, T("Ferments within 2-3 days if not cooled."),
            T("Process quickly or use evaporative cooling.")>>>>,
        <<s_sack, <<s_High, T("Speeds up fermentation."),
            T("Use ventilated containers.")>>>>,
        <<s_cold_room, <<s_Low, T("Slows microbial action."),
            None>>>>>>>>>>

storage_risk_rules_ed1ff3 == <<
    <<s_tomato, <<
        <<s_open_shed, <<s_High, T("Tomatoes degrade fast in open-air storage."),
            T("Use evaporative cooling or cold storage.")>>>>,
        <<s_sack, <<s_High, T("Sacks retain heat/moisture, accelerating spoilage."),
            T("Use ventilated crates.")>>>>,
        <<s_evap_cooler, <<s_Medium, T("Reduces temperature but needs maintenance."),
            T("Ensure water supply.")>>>>,
        <<s_cold_room, <<s_Low, T("Preserves freshness effectively."),
            None>>>>>>>>,
    <<s_cassava, <<
        <<s_open_shed, <<s_High, T("Ferments within 2-3 days if not cooled."),
            T("Process quickly or use evaporative cooling.")>>>>,
        <<s_sack, <<s_High, T("Speeds up fermentation."),
            T("Use ventilated containers.")>>>>,
        <<s_cold_room, <<s_Low, T("Slows microbial action."),
            None>>>>>>>>,
    <<s_yam, <<
        <<s_open_shed, <<s_Medium, T("Can sprout or rot in moist environments."),
            T("Store on raised wooden racks.")>>>>,
        <<s_sack, <<s_Medium, T("Risk of bruising and airflow restriction."),
            T("Use ventilated stacks.")>>>>,
        <<s_warehouse, <<s_Low, T("Lasts several weeks when properly stored."),
            None>>>>>>>>>>

CROP_RISK_RULES == <<
    <<s_maize, <<
        <<s_open_sack, [risk |-> s_High, reason |-> T("Prone to mold in humidity"),
            recommendation |-> T("Use hermetic bags")]>>,
        <<s_crib, [risk |-> s_Medium, reason |-> T("Rodent/pest exposure"),
            recommendation |-> T("Treat with neem powder")]>>,
        <<s_silo, [risk |-> s_Low, reason |-> T("Controlled conditions"),
            recommendation |-> T("Monitor moisture levels")]>>>>>>,
    <<s_onion, <<
        <<s_open_field, [risk |-> s_High, reason |-> T("Sunscald and sprouting"),
            recommendation |-> T("Cure before storage")]>>,
        <<s_mesh_bags, [risk |-> s_Medium, reason |-> T("Limited airflow"),
            recommendation |-> T("Hang in ventilated shed")]>>,
        <<s_cold_room, [risk |-> s_Low, reason |-> T("Dormancy preservation"),
            recommendation |-> T("Maintain 0-4°C")]>>>>>>,
    <<s_plantain, <<
        <<s_bunch_hanging, [risk |-> s_Medium, reason |-> T("Even ripening"),
            recommendation |-> T("Harvest at 75% maturity")]>>,
        <<s_cardboard_box, [risk |-> s_High, reason |-> T("Bruising and compression"),
            recommendation |-> T("Use separators")]>>,
        <<s_ripening_room, [risk |-> s_Low, reason |-> T("Ethylene control"),
            recommendation |-> T("Monitor daily")]>>>>>>,
    <<s_yam, <<
        <<s_barn, [risk |-> s_Medium, reason |-> T("Sprouting after 3 months"),
            recommendation |-> T("Treat with wood ash")]>>,
        <<s_pit, [risk |-> s_High, reason |-> T("Rot in rainy season"),
            recommendation |-> T("Line with straw")]>>,
        <<s_cold_storage, [risk |-> s_Low, reason |-> T("12-month shelf life"),
            recommendation |-> T("Maintain 12°C")]>>>>>>,
    <<s_cassava, <<
        <<s_open_pile, [risk |-> s_High, reason |-> T("48-hour spoilage window"),
            recommendation |-> T("Process immediately")]>>,
        <<s_trench, [risk |-> s_Medium, reason |-> T("Partial protection"),
            recommendation |-> T("Cover with moist soil")]>>,
        <<s_processed_flour, [risk |-> s_Low, reason |-> T("Stable shelf life"),
            recommendation |-> T("Package when fully dry")]>>>>>>,
    <<s_tomato, <<
        <<s_open_basket, [risk |-> s_High, reason |-> T("Bruising and decay"),
            recommendation |-> T("Use plastic crates")]>>,
        <<s_shaded_shed, [risk |-> s_Medium, reason |-> T("Limited shelf life"),
            recommendation |-> T("Sell within 2 days")]>>,
        <<s_cold_chain, [risk |-> s_Low, reason |-> T("14-day freshness"),
            recommendation |-> T("Pre-cool before storage")]>>>>>>>>

\* a logistics table that lacks a crop of CROP_RISK_RULES
LOGISTICS_OPTIONS_without_tomato == <<
    <<s_maize, <<T("Direct to market"), T("Grain silo"), T("Industrial buyer")>>>>,
    <<s_onion, <<T("Local markets"), T("Export channels"), T("Processing plants")>>>>,
    <<s_plantain, <<T("Roadside sales"), T("Urban markets"), T("Chips processors")>>>>,
    <<s_yam, <<T("Village markets"), T("Interstate trade"), T("Export")>>>>,
    <<s_cassava, <<T("Local processors"), T("Industrial starch"), T("Gari markets")>>>>>>

LOGISTICS_OPTIONS == <<
    <<s_maize, <<T("Direct to market"), T("Grain silo"), T("Industrial buyer")>>>>,
    <<s_onion, <<T("Local markets"), T("Export channels"), T("Processing plants")>>>>,
    <<s_plantain, <<T("Roadside sales"), T("Urban markets"), T("Chips processors")>>>>,
    <<s_yam, <<T("Village markets"), T("Interstate trade"), T("Export")>>>>,
    <<s_cassava, <<T("Local processors"), T("Industrial starch"), T("Gari markets")>>>>,
    <<s_tomato, <<T("Fresh markets"), T("Ketchup factories"), T("Supermarkets")>>>>>>

-----------------------------------------------------------------------------
(* PHL.py: assess_storage_risk reads the table the process holds (risk_rules) *)

\* a season looked up with the region as given, letter case included
season_of_exact_case(region) ==
    IF Truthy(region)
    THEN IF HasKey(region_season, region)
         THEN Item(region_season, region)
         ELSE s_Dry
    ELSE s_Dry

\* region_season.get(region.lower(), "Dry") if region else "Dry"
season_of(region) ==
    IF Truthy(region)
    THEN IF HasKey(region_season, lower(region))
         THEN Item(region_season, lower(region))
         ELSE s_Dry
    ELSE s_Dry

\* the season shown whether or not a region was given
season_label_unmarked(region) == season_of(region)

\* season if region else "N/A"
season_label(region) == IF Truthy(region) THEN season_of(region) ELSE s_N_A

\* a lookup that tells the two kinds of miss apart
try_lookup_two_misses(crop_type, storage_method) ==
    IF ~HasKey(risk_rules, crop_type)
    THEN <<s_Unknown, T("No data available for this combination."),
           T("Consider using cold storage or consult an extension agent.")>>
    ELSE IF ~HasKey(Item(risk_rules, crop_type), storage_method)
    THEN <<s_Unknown, T("No data available for this storage method."),
           T("Consider using cold storage or consult an extension agent.")>>
    ELSE Item(Item(risk_rules, crop_type), storage_method)

\* a lookup that lower-cases and trims both keys first
try_lookup_normalized(crop_type, storage_method) ==
    LET c == strip(lower(crop_type), " ")
        m == strip(lower(storage_method), " ")
    IN  IF KeyError2(risk_rules, c, m)
        THEN <<s_Unknown, T("No data available for this combination."),
               T("Consider using cold storage or consult an extension agent.")>>
        ELSE Item(Item(risk_rules, c), m)

\* a lookup that reuses the previous call's answer when the storage method
\* is the same, whatever the crop
try_lookup_memo(crop_type, storage_method) ==
    IF script = "PHL" /\ call.op = "assess" /\ call.args[2] = storage_method
    THEN <<result["Risk Level"], result["Justification"], result["Recommendation"]>>
    ELSE IF KeyError2(risk_rules, crop_type, storage_method)
    THEN <<s_Unknown, T("No data available for this combination."),
           T("Consider using cold storage or consult an extension agent.")>>
    ELSE Item(Item(risk_rules, crop_type), storage_method)

\* the try/except: <<risk, justification, recommendation>>
try_lookup(crop_type, storage_method) ==
    IF KeyError2(risk_rules, crop_type, storage_method)
    THEN <<s_Unknown, T("No data available for this combination."),
           T("Consider using cold storage or consult an extension agent.")>>
    ELSE Item(Item(risk_rules, crop_type), storage_method)

\* the recommendation passed on as stored
or_default_dropped(recommendation) == recommendation

\* recommendation or "No additional recommendation."
or_default(recommendation) ==
    IF Truthy(recommendation) THEN recommendation
    ELSE T("No additional recommendation.")

\* an assessment whose recommendation also depends on the season
assess_storage_risk_seasonal(crop_type, storage_method, region) ==
    LET e == try_lookup(crop_type, storage_method)
    IN  ("Crop" :> capitalize(crop_type))
        @@ ("Storage Method" :> storage_method)
        @@ ("Season (based on region)" :> season_label(region))
        @@ ("Risk Level" :> e[1])
        @@ ("Justification" :> e[2])
        @@ ("Recommendation" :>
               IF season_of(region) = s_Wet THEN T("Keep dry during the rains.")
               ELSE or_default(e[3]))

assess_storage_risk(crop_type, storage_method, region) ==
    LET e == try_lookup(crop_type, storage_method)
    IN  ("Crop" :> capitalize(crop_type))
        @@ ("Storage Method" :> storage_method)
        @@ ("Season (based on region)" :> season_label(region))
        @@ ("Risk Level" :> e[1])
        @@ ("Justification" :> e[2])
        @@ ("Recommendation" :> or_default(e[3]))

-----------------------------------------------------------------------------
(* The dashboard variants' assess_risk *)

\* the try/except of the three assess_risk functions, which is the same code
lookup_or_unknown(crop_type, storage_method) ==
    IF KeyError2(risk_rules, crop_type, storage_method)
    THEN <<s_Unknown, T("No data for this combination."),
           T("Consult an agricultural expert.")>>
    ELSE Item(Item(risk_rules, crop_type), storage_method)

or_no_action(recommendation) ==
    IF Truthy(recommendation) THEN recommendation
    ELSE T("No additional action needed.")

assess_risk_0faeb1(crop_type, storage_method) ==
    LET e == lookup_or_unknown(crop_type, storage_method)
    IN  ("Crop" :> capitalize(crop_type))
        @@ ("Storage Method" :> storage_method)
        @@ ("Risk Level" :> e[1])
        @@ ("Why?" :> e[2])
        @@ ("Recommendation" :> or_no_action(e[3]))

assess_risk_6b08ea(crop_type, storage_method) ==
    LET e == lookup_or_unknown(crop_type, storage_method)
    IN  ("Crop" :> capitalize(crop_type))
        @@ ("Risk Level" :> e[1])
        @@ ("Why?" :> e[2])
        @@ ("Recommendation" :> or_no_action(e[3]))

assess_risk_ed1ff3(crop_type, storage_method) ==
    LET e == lookup_or_unknown(crop_type, storage_method)
    IN  ("Crop" :> capitalize(crop_type))
        @@ ("Storage" :> storage_method)
        @@ ("Risk Level" :> e[1])
        @@ ("Why?" :> e[2])
        @@ ("Recommendation" :> or_no_action(e[3]))

-----------------------------------------------------------------------------
(* deepseek_python_20250514_1975cc.py *)

RECURSIVE join(_, _)
\* sep.join(items)
join(sep, items) ==
    IF Len(items) = 0 THEN <<>>
    ELSE IF Len(items) = 1 THEN items[1]
    ELSE items[1] \o sep \o join(sep, Tail(items))

\* a report that leaves the logistics line out of the action items
generate_recommendation_without_logistics(crop_, storage_method) ==
    IF KeyError2(risk_rules, crop_, storage_method)
    THEN ("risk_level" :> s_Unknown)
         @@ ("risk_reason" :> T("No data available"))
         @@ ("action_items" :> <<T("Consult agricultural officer")>>)
         @@ ("storage_method" :> storage_method)
    ELSE LET result_ == Item(Item(risk_rules, crop_), storage_method)
         IN  ("risk_level" :> result_.risk)
             @@ ("risk_reason" :> result_.reason)
             @@ ("action_items" :> <<result_.recommendation>>)
             @@ ("storage_method" :> storage_method)

generate_recommendation(crop_, storage_method) ==
    IF KeyError2(risk_rules, crop_, storage_method) \/ ~HasKey(LOGISTICS_OPTIONS, crop_)
    THEN ("risk_level" :> s_Unknown)
         @@ ("risk_reason" :> T("No data available"))
         @@ ("action_items" :> <<T("Consult agricultural officer")>>)
         @@ ("storage_method" :> storage_method)
    ELSE LET result_ == Item(Item(risk_rules, crop_), storage_method)
         IN  ("risk_level" :> result_.risk)
             @@ ("risk_reason" :> result_.reason)
             @@ ("action_items" :>
                    <<result_.recommendation,
                      T("Logistics options: ")
                          \o join(T(", "), Item(LOGISTICS_OPTIONS, crop_))>>)
             @@ ("storage_method" :> storage_method)

\* loss rates in percent
baseline == <<
    <<s_maize,    << <<s_high, 35>>, <<s_medium, 20>>, <<s_low, 10>> >> >>,
    <<s_onion,    << <<s_high, 40>>, <<s_medium, 25>>, <<s_low, 15>> >> >>,
    <<s_plantain, << <<s_high, 45>>, <<s_medium, 30>>, <<s_low, 15>> >> >>,
    <<s_yam,      << <<s_high, 30>>, <<s_medium, 20>>, <<s_low, 10>> >> >>,
    <<s_cassava,  << <<s_high, 50>>, <<s_medium, 30>>, <<s_low, 15>> >> >>,
    <<s_tomato,   << <<s_high, 40>>, <<s_medium, 25>>, <<s_low, 10>> >> >> >>

\* loss reductions in percent
reduction == << <<s_High, 15>>, <<s_Medium, 30>>, <<s_Low, 50>> >>

\* d.get(k, default)
get(d, k, default) == IF HasKey(d, k) THEN Item(d, k) ELSE default

Digits == <<"0", "1", "2", "3", "4", "5", "6", "7", "8", "9">>

RECURSIVE str_of_int(_)
\* the digits of a non-negative integer, as f"{x:.0f}" prints a whole number
str_of_int(n) ==
    IF n < 10 THEN <<Digits[n + 1]>>
    ELSE str_of_int(n \div 10) \o <<Digits[(n % 10) + 1]>>

\* x/100 rounded to a whole number, halves to the even neighbour (":.0f")
round_hundredths(x) ==
    LET q == x \div 100
        r == x % 100
    IN  IF r < 50 THEN q
        ELSE IF r > 50 THEN q + 1
        ELSE IF q % 2 = 0 THEN q ELSE q + 1

calculate_economic_impact(crop_, risk_level) ==
    LET loss_rate == get(get(baseline, crop_, <<>>), lower(risk_level), 30)
        \* improved_rate in hundredths of a percent
        improved_rate == loss_rate * (100 - get(reduction, risk_level, 20))
    IN  ("current_loss" :> str_of_int(loss_rate) \o <<"%">>)
        @@ ("projected_loss" :> str_of_int(round_hundredths(improved_rate)) \o <<"%">>)
        \* (loss_rate - improved_rate) * 75000 in half naira; the thousands
        \* grouping and rounding of the amount are left to the page
        @@ ("value_saved" :> (loss_rate * 100 - improved_rate) * 15)

\* whether float(s) raises ValueError, for the strings the page hands it
is_number(s) ==
    Len(s) > 0 /\ \A i \in 1..Len(s) : \E d \in 1..Len(Digits) : Digits[d] = s[i]

-----------------------------------------------------------------------------
(* Cross-crop comparison: the loop under the "Compare All Crops" checkbox *)

RECURSIVE compare_rows_all(_, _)
\* a loop that reports a crop without the method as "Unknown"
compare_rows_all(d, storage_) ==
    IF Len(d) = 0 THEN <<>>
    ELSE <<("Crop" :> capitalize(d[1][1]))
           @@ ("Risk" :> IF HasKey(d[1][2], storage_)
                         THEN Item(d[1][2], storage_)[1] ELSE s_Unknown)>>
         \o compare_rows_all(Tail(d), storage_)

RECURSIVE compare_rows(_, _)
\* the rows the loop appends while it walks the items d of the table
compare_rows(d, storage_) ==
    IF Len(d) = 0 THEN <<>>
    ELSE (IF HasKey(d[1][2], storage_)
          THEN <<("Crop" :> capitalize(d[1][1]))
                 @@ ("Risk" :> Item(d[1][2], storage_)[1])>>
          ELSE <<>>)
         \o compare_rows(Tail(d), storage_)

compare_all_crops(storage_) == compare_rows(risk_rules, storage_)

-----------------------------------------------------------------------------
(* PHL.py: the batch report *)

RECURSIVE value_counts_known(_)
\* a tally that skips the rows whose level is "Unknown"
value_counts_known(col) ==
    IF Len(col) = 0 THEN <<>>
    ELSE LET rest == value_counts_known(SubSeq(col, 1, Len(col) - 1))
             v == col[Len(col)]
         IN  IF v = s_Unknown THEN rest
             ELSE IF v \in DOMAIN rest THEN [rest EXCEPT ![v] = @ + 1]
             ELSE rest @@ (v :> 1)

RECURSIVE value_counts(_)
\* Series.value_counts(): one row per distinct value, with its number of
\* occurrences; kept as value -> count, the order of the rows left out
value_counts(col) ==
    IF Len(col) = 0 THEN <<>>
    ELSE LET rest == value_counts(SubSeq(col, 1, Len(col) - 1))
             v == col[Len(col)]
         IN  IF v \in DOMAIN rest THEN [rest EXCEPT ![v] = @ + 1]
             ELSE rest @@ (v :> 1)

\* len(df_results[df_results['Risk Level'] == level])
count_rows(rows, level) ==
    Len(SelectSeq(rows, LAMBDA r : r["Risk Level"] = level))

risk_order == <<s_High, s_Medium, s_Low>>

\* everything the script derives from the batch: results, risk_counts,
\* the rows handed to the bar chart, the four metrics
batch_report(inputs) ==
    LET results == [i \in 1..Len(inputs) |->
                        assess_storage_risk(inputs[i][1], inputs[i][2], None)]
        column == [i \in 1..Len(results) |-> results[i]["Risk Level"]]
        risk_counts == value_counts(column)
    IN  IF Len(results) = 0
        \* a frame built from no rows has no 'Risk Level' column
        THEN [error |-> "KeyError", results |-> results, risk_counts |-> <<>>,
              plot_data |-> <<>>, metrics |-> <<>>]
        ELSE [error |-> "none",
              results |-> results,
              risk_counts |-> risk_counts,
              plot_data |->
                  LET present == SelectSeq(risk_order,
                                           LAMBDA risk : risk \in DOMAIN risk_counts)
                  IN  [i \in 1..Len(present) |-> <<present[i], risk_counts[present[i]]>>],
              metrics |-> ("Total Assessments" :> Len(results))
                          @@ ("High Risk Storage Methods" :> count_rows(results, s_High))
                          @@ ("Medium Risk Storage Methods" :> count_rows(results, s_Medium))
                          @@ ("Low Risk Storage Methods" :> count_rows(results, s_Low))]

-----------------------------------------------------------------------------
(* The page a button press renders *)

BlankPage == [pressed |-> FALSE, error |-> "none", shown |-> <<>>]

\* the f-string of st.markdown reads these keys of the result
render(res, reads) ==
    IF reads \subseteq DOMAIN res
    THEN [pressed |-> TRUE, error |-> "none", shown |-> [f \in reads |-> res[f]]]
    ELSE [pressed |-> TRUE, error |-> "KeyError", shown |-> <<>>]

reads_0faeb1 == {"Risk Level", "Crop", "Storage Method", "Why?", "Recommendation"}

reads_6b08ea == {"Risk Level", "Crop", "Storage Method", "Why?", "Recommendation"}

reads_ed1ff3 == {"Risk Level", "Crop", "Storage", "Why?", "Recommendation"}

reads_recommendation == {"risk_level", "storage_method", "risk_reason", "action_items"}

reads_impact == {"current_loss", "projected_loss", "value_saved"}

\* the report of the 1975cc dashboard: recommendation, impact and the
\* improvement cell float(current.strip('%')) - float(projected.strip('%'))
render_report(recommendation, impact) ==
    IF ~(reads_recommendation \subseteq DOMAIN recommendation)
       \/ ~(reads_impact \subseteq DOMAIN impact)
    THEN [pressed |-> TRUE, error |-> "KeyError", shown |-> <<>>]
    ELSE IF ~is_number(strip(impact["current_loss"], "%"))
            \/ ~is_number(strip(impact["projected_loss"], "%"))
    THEN [pressed |-> TRUE, error |-> "ValueError", shown |-> <<>>]
    ELSE [pressed |-> TRUE, error |-> "none",
          shown |-> [f \in reads_recommendation |-> recommendation[f]]
                    @@ [f \in reads_impact |-> impact[f]]]

-----------------------------------------------------------------------------
(* Processes and inputs *)

Scripts == {"PHL", "0faeb1", "6b08ea", "ed1ff3", "1975cc"}

\* the scripts with selectors and a result button
Dashboards == {"0faeb1", "6b08ea", "ed1ff3", "1975cc"}

\* a process either runs the script as the page it is ("page"), or calls
\* the script's functions with arguments of its own choosing ("calls")
Modes == {"page", "calls"}

\* the table literal a script is started with
Seed(s) ==
    CASE s = "PHL" -> storage_risk_rules
      [] s = "0faeb1" -> storage_risk_rules_0faeb1
      [] s = "6b08ea" -> storage_risk_rules_6b08ea
      [] s = "ed1ff3" -> storage_risk_rules_ed1ff3
      [] s = "1975cc" -> CROP_RISK_RULES

Range(f) == {f[i] : i \in DOMAIN f}

MaxBatchLen == 2

\* crops and methods tried besides the keys of the table
OddCrops == {s_Tomato, s__tomato, s_durian}

OddMethods == {s_Sack, s__sack, s_backyard_pit}

CropInputs(tbl) == Range(keys(tbl)) \cup OddCrops

\* the (crop, method) pairs of a table
Pairs(tbl) ==
    UNION {{<<tbl[i][1], m>> : m \in Range(keys(tbl[i][2]))} : i \in DOMAIN tbl}

Methods(tbl) == {p[2] : p \in Pairs(tbl)}

\* methods tried with every crop: those of the table when they are few,
\* else those of its first two crops, and the odd ones
MethodInputs(tbl) ==
    (IF Cardinality(Methods(tbl)) <= 6 THEN Methods(tbl)
     ELSE Range(keys(tbl[1][2])) \cup Range(keys(tbl[2][2])))
    \cup OddMethods

\* the (crop, method) arguments tried on a table
PairInputs(tbl) == Pairs(tbl) \cup (CropInputs(tbl) \X MethodInputs(tbl))

RegionInputs ==
    {None, <<>>, s_north, s_south, s_middle_belt, s_SOUTH, s_South,
     s_Middle_Belt, s_east}

\* the calls of assess_storage_risk tried: every pair with no region, and a
\* hit and the two kinds of miss with every region
CallInputs ==
    (PairInputs(storage_risk_rules) \X {None})
    \cup ({<<s_tomato, s_sack>>, <<s_tomato, s_backyard_pit>>, <<s_durian, s_sack>>}
          \X RegionInputs)

\* the calls that may be kept aside for comparison with a later one
PinInputs ==
    {<<<<s_tomato, s_sack>>, None>>, <<<<s_tomato, s_cold_room>>, None>>,
     <<<<s_tomato, s_sack>>, s_south>>, <<<<s_tomato, s_sack>>, <<>>>>,
     <<<<s_durian, s_sack>>, None>>, <<<<s_tomato, s_backyard_pit>>, s_SOUTH>>,
     <<<<s_yam, s_cold_room>>, None>>, <<<<s_Tomato, s_sack>>, None>>}

BatchPairs ==
    {<<s_tomato, s_sack>>, <<s_yam, s_warehouse_well_ventilated>>,
     <<s_plantain, s_evap_cooler>>, <<s_durian, s_box>>}

BatchInputs == UNION {[1..n -> BatchPairs] : n \in 0..MaxBatchLen}

NoCall == [op |-> "none", args |-> <<>>, compared |-> FALSE]

NoPin == [args |-> <<>>, result |-> <<>>]

Init ==
    /\ script \in Scripts
    /\ mode \in Modes
    /\ risk_rules = Seed(script)
    /\ crop = IF script \in Dashboards THEN keys(Seed(script))[1] ELSE None
    /\ storage = IF script \in Dashboards THEN keys(Seed(script)[1][2])[1] ELSE None
    /\ call = NoCall
    /\ result = None
    /\ pinned = NoPin
    /\ page = BlankPage
    /\ chart_data = None
    /\ report = None

-----------------------------------------------------------------------------
(* The functions called directly.  call, result, chart_data and report    *)
(* hold the most recent operation and what it returned.                   *)

\* an assessment that writes the fallback entry of a miss into the table
Assess_remembering(crop_type, storage_method, region, pin) ==
    /\ script = "PHL" /\ mode = "calls"
    /\ call' = [op |-> "assess", args |-> <<crop_type, storage_method, region>>,
                 compared |-> FALSE]
    /\ result' = assess_storage_risk(crop_type, storage_method, region)
    /\ pinned' = IF pin
                 THEN [args |-> <<crop_type, storage_method, region>>,
                       result |-> assess_storage_risk(crop_type, storage_method, region)]
                 ELSE pinned
    /\ chart_data' = None
    /\ report' = None
    /\ risk_rules' =
          LET entry == <<storage_method, try_lookup(crop_type, storage_method)>>
          IN  IF ~HasKey(risk_rules, crop_type)
              THEN Append(risk_rules, <<crop_type, <<entry>>>>)
              ELSE IF ~HasKey(Item(risk_rules, crop_type), storage_method)
              THEN [risk_rules EXCEPT
                       ![CHOOSE i \in DOMAIN risk_rules : risk_rules[i][1] = crop_type][2] =
                           Append(@, entry)]
              ELSE risk_rules
    /\ UNCHANGED <<script, mode, crop, storage, page>>

\* assess_storage_risk(crop_type, storage_method, region); pin keeps this
\* call aside for comparison with later ones
Assess(crop_type, storage_method, region, pin) ==
    /\ script = "PHL" /\ mode = "calls"
    /\ call' = [op |-> "assess", args |-> <<crop_type, storage_method, region>>,
                 compared |-> FALSE]
    /\ result' = assess_storage_risk(crop_type, storage_method, region)
    /\ pinned' = IF pin
                 THEN [args |-> <<crop_type, storage_method, region>>,
                       result |-> assess_storage_risk(crop_type, storage_method, region)]
                 ELSE pinned
    /\ chart_data' = None
    /\ report' = None
    /\ UNCHANGED <<script, mode, risk_rules, crop, storage, page>>

\* assess_risk(crop_type, storage_method) of the three small dashboards
AssessRisk(crop_type, storage_method) ==
    /\ script \in {"0faeb1", "6b08ea", "ed1ff3"} /\ mode = "calls"
    /\ call' = [op |-> "assess", args |-> <<crop_type, storage_method>>, compared |-> FALSE]
    /\ result' = CASE script = "0faeb1" -> assess_risk_0faeb1(crop_type, storage_method)
                   [] script = "6b08ea" -> assess_risk_6b08ea(crop_type, storage_method)
                   [] script = "ed1ff3" -> assess_risk_ed1ff3(crop_type, storage_method)
    /\ chart_data' = None
    /\ UNCHANGED <<script, mode, risk_rules, crop, storage, page, pinned, report>>

\* generate_recommendation(crop, storage_method)
Generate(crop_, storage_method) ==
    /\ script = "1975cc" /\ mode = "calls"
    /\ call' = [op |-> "assess", args |-> <<crop_, storage_method>>, compared |-> FALSE]
    /\ result' = generate_recommendation(crop_, storage_method)
    /\ UNCHANGED <<script, mode, risk_rules, crop, storage, page, pinned, chart_data, report>>

\* the comparison loop for one storage method, over the table of any script
\* that holds a storage_risk_rules
Compare(storage_) ==
    /\ script \in {"PHL", "0faeb1", "6b08ea", "ed1ff3"} /\ mode = "calls"
    /\ call' = [op |-> "compare", args |-> <<storage_>>, compared |-> TRUE]
    /\ chart_data' = compare_all_crops(storage_)
    /\ result' = None
    /\ report' = None
    /\ UNCHANGED <<script, mode, risk_rules, crop, storage, page, pinned>>

\* PHL.py from "Process all test inputs" to the metrics, for a batch put in
\* the place of test_inputs
RunBatch(inputs) ==
    /\ script = "PHL" /\ mode = "calls"
    /\ call' = [op |-> "batch", args |-> inputs, compared |-> FALSE]
    /\ report' = batch_report(inputs)
    /\ result' = None
    /\ chart_data' = None
    /\ UNCHANGED <<script, mode, risk_rules, crop, storage, page, pinned>>

-----------------------------------------------------------------------------
(* The scripts run as pages *)

\* PHL.py run top to bottom
RunScript ==
    /\ script = "PHL" /\ mode = "page"
    /\ call' = [op |-> "batch", args |-> test_inputs, compared |-> FALSE]
    /\ report' = batch_report(test_inputs)
    /\ UNCHANGED <<script, mode, risk_rules, crop, storage, page, pinned, result, chart_data>>

\* the storage selectbox offers the methods of the selected crop
Options(c) == Range(keys(Item(risk_rules, c)))

\* a crop is picked and the storage selectbox keeps the method it had
SelectCrop_keeping_storage(c, m) ==
    /\ script \in Dashboards /\ mode = "page"
    /\ c \in Range(keys(risk_rules))
    /\ m \in Options(c)
    /\ crop' = c
    /\ page' = BlankPage
    /\ call' = NoCall
    /\ result' = None
    /\ chart_data' = None
    /\ UNCHANGED <<script, mode, risk_rules, storage, pinned, report>>

\* a crop is picked; the script reruns, the storage selectbox returns one of
\* the options it is now given, the button is not pressed
SelectCrop(c, m) ==
    /\ script \in Dashboards /\ mode = "page"
    /\ c \in Range(keys(risk_rules))
    /\ m \in Options(c)
    /\ crop' = c
    /\ storage' = m
    /\ page' = BlankPage
    /\ call' = NoCall
    /\ result' = None
    /\ chart_data' = None
    /\ UNCHANGED <<script, mode, risk_rules, pinned, report>>

\* a storage method is picked among those offered; the script reruns, the
\* button is not pressed
SelectStorage(m) ==
    /\ script \in Dashboards /\ mode = "page"
    /\ m \in Options(crop)
    /\ storage' = m
    /\ page' = BlankPage
    /\ call' = NoCall
    /\ result' = None
    /\ chart_data' = None
    /\ UNCHANGED <<script, mode, risk_rules, crop, pinned, report>>

\* "Calculate Risk"; compare is the value of the checkbox
Press_0faeb1(compare) ==
    /\ script = "0faeb1" /\ mode = "page"
    /\ call' = [op |-> "press", args |-> <<crop, storage>>, compared |-> compare]
    /\ result' = assess_risk_0faeb1(crop, storage)
    /\ page' = render(assess_risk_0faeb1(crop, storage), reads_0faeb1)
    /\ chart_data' = IF compare THEN compare_all_crops(storage) ELSE None
    /\ UNCHANGED <<script, mode, risk_rules, crop, storage, pinned, report>>

\* "Get Recommendation"; a KeyError of the f-string ends the run before
\* the checkbox is reached
Press_6b08ea(compare) ==
    /\ script = "6b08ea" /\ mode = "page"
    /\ call' = [op |-> "press", args |-> <<crop, storage>>,
                 compared |-> compare /\ render(assess_risk_6b08ea(crop, storage),
                                                reads_6b08ea).error = "none"]
    /\ result' = assess_risk_6b08ea(crop, storage)
    /\ page' = render(assess_risk_6b08ea(crop, storage), reads_6b08ea)
    /\ chart_data' =
          IF render(assess_risk_6b08ea(crop, storage), reads_6b08ea).error = "none"
             /\ compare
          THEN compare_all_crops(storage) ELSE None
    /\ UNCHANGED <<script, mode, risk_rules, crop, storage, pinned, report>>

\* "Get Recommendation"
Press_ed1ff3 ==
    /\ script = "ed1ff3" /\ mode = "page"
    /\ call' = [op |-> "press", args |-> <<crop, storage>>, compared |-> FALSE]
    /\ result' = assess_risk_ed1ff3(crop, storage)
    /\ page' = render(assess_risk_ed1ff3(crop, storage), reads_ed1ff3)
    /\ UNCHANGED <<script, mode, risk_rules, crop, storage, pinned, chart_data, report>>

\* "GENERATE DSS REPORT"
Press_1975cc ==
    /\ script = "1975cc" /\ mode = "page"
    /\ call' = [op |-> "press", args |-> <<crop, storage>>, compared |-> FALSE]
    /\ result' = generate_recommendation(crop, storage)
    /\ page' = LET recommendation == generate_recommendation(crop, storage)
               IN  IF "risk_level" \in DOMAIN recommendation
                   THEN render_report(recommendation,
                            calculate_economic_impact(crop, recommendation["risk_level"]))
                   ELSE [pressed |-> TRUE, error |-> "KeyError", shown |-> <<>>]
    /\ UNCHANGED <<script, mode, risk_rules, crop, storage, pinned, chart_data, report>>

Next ==
    \/ \E a \in CallInputs, pin \in BOOLEAN :
          /\ pin => a \in PinInputs
          /\ Assess(a[1][1], a[1][2], a[2], pin)
    \/ \E p \in PairInputs(Seed(script)) : AssessRisk(p[1], p[2])
    \/ \E p \in PairInputs(Seed(script)) : Generate(p[1], p[2])
    \/ \E m \in MethodInputs(Seed(script)) : Compare(m)
    \/ \E b \in BatchInputs : RunBatch(b)
    \/ RunScript
    \/ \E p \in Pairs(Seed(script)) : SelectCrop(p[1], p[2])
    \/ \E m \in Methods(Seed(script)) : SelectStorage(m)
    \/ \E compare \in BOOLEAN : Press_0faeb1(compare)
    \/ \E compare \in BOOLEAN : Press_6b08ea(compare)
    \/ Press_ed1ff3
    \/ Press_1975cc

Spec == Init /\ [][Next]_vars

-----------------------------------------------------------------------------
(* Reference readings of the table literals, for the properties below *)

\* the entry PHL.py's literal stores for a pair it holds
Stored(c, m) ==
    LET i == CHOOSE i \in DOMAIN storage_risk_rules : storage_risk_rules[i][1] = c
        j == CHOOSE j \in DOMAIN storage_risk_rules[i][2] :
                 storage_risk_rules[i][2][j][1] = m
    IN  storage_risk_rules[i][2][j][2]

\* the last operation was a direct call of assess_storage_risk
IsAssessCall == script = "PHL" /\ call.op = "assess"

Hit == <<call.args[1], call.args[2]>> \in Pairs(storage_risk_rules)

-----------------------------------------------------------------------------
(* Properties *)

\* C1: for every (crop, method) pair of storage_risk_rules, the call returns
\* the stored risk level and justification; its Recommendation is the stored
\* one, or "No additional recommendation." when None is stored; the
\* Recommendation of any call is neither None nor empty.
C1_StoredEntryReturned ==
    IsAssessCall =>
        /\ Hit =>
            LET e == Stored(call.args[1], call.args[2])
            IN  /\ result["Risk Level"] = e[1]
                /\ result["Justification"] = e[2]
                /\ e[3] # None => result["Recommendation"] = e[3]
                /\ e[3] = None =>
                       result["Recommendation"] = T("No additional recommendation.")
        /\ result["Recommendation"] # None
        /\ result["Recommendation"] # <<>>

\* a pair whose stored recommendation is None has been assessed
C1_Witness ==
    /\ IsAssessCall
    /\ call.args = <<s_tomato, s_cold_room, None>>
    /\ result["Risk Level"] = s_Low
    /\ result["Recommendation"] = T("No additional recommendation.")

\* C2: a lookup miss is a normal result: for a crop absent from the table
\* and for a crop of the table with a method not defined under it, the call
\* returns a dict with Risk Level "Unknown" and the two fixed fallback texts.
C2_MissIsUnknown ==
    (IsAssessCall /\ ~Hit) =>
        /\ DOMAIN result = {"Crop", "Storage Method", "Season (based on region)",
                            "Risk Level", "Justification", "Recommendation"}
        /\ result["Risk Level"] = s_Unknown
        /\ result["Justification"] = T("No data available for this combination.")
        /\ result["Recommendation"] =
               T("Consider using cold storage or consult an extension agent.")

\* both kinds of miss have happened and agree: an unknown crop was assessed
\* and kept aside, then a known crop with a method it does not define
C2_Witness ==
    /\ IsAssessCall
    /\ pinned.args = <<s_durian, s_sack, None>>
    /\ call.args = <<s_tomato, s_backyard_pit, None>>
    /\ result["Risk Level"] = s_Unknown
    /\ \A f \in {"Risk Level", "Justification", "Recommendation"} :
           result[f] = pinned.result[f]

\* a key with its letters lower-cased and the blanks around it removed
Normalized(k) == strip(lower(k), " ")

\* C3: no normalization before the lookup: a crop or method that differs
\* from a key of the table only in letter case or surrounding blanks is a
\* miss, Risk Level "Unknown", while the Crop field is the input capitalized.
C3_NoNormalization ==
    (/\ IsAssessCall
     /\ ~Hit
     /\ <<Normalized(call.args[1]), Normalized(call.args[2])>>
            \in Pairs(storage_risk_rules)) =>
        /\ result["Risk Level"] = s_Unknown
        /\ result["Storage Method"] = call.args[2]
        /\ Len(result["Crop"]) = Len(call.args[1])
        /\ call.args[1] = s_Tomato => result["Crop"] = s_Tomato
        /\ call.args[1] = s_tomato => result["Crop"] = s_Tomato
        /\ call.args[1] = s__tomato => result["Crop"] = s__tomato

\* ("Tomato", "sack") has been assessed
C3_Witness ==
    /\ IsAssessCall
    /\ call.args = <<s_Tomato, s_sack, None>>
    /\ result["Risk Level"] = s_Unknown
    /\ result["Crop"] = s_Tomato

\* C4 as stated: "Dry" for north, "Wet" for south, "Transition" for
\* middle-belt, "Dry" for any other supplied region, "N/A" with no region.
C4_SeasonAsStated ==
    IsAssessCall =>
        LET region == call.args[3]
            season == result["Season (based on region)"]
        IN  /\ region = None => season = s_N_A
            /\ region = s_north => season = s_Dry
            /\ region = s_south => season = s_Wet
            /\ region = s_middle_belt => season = s_Transition
            /\ region \notin {None, s_north, s_south, s_middle_belt} => season = s_Dry

\* C4, amended: the season label is "N/A" when no region or the empty string
\* is supplied; otherwise the lower-cased region decides: "Dry" for north,
\* "Wet" for south, "Transition" for middle-belt, "Dry" for any other.
C4_SeasonByLowerCasedRegion ==
    IsAssessCall =>
        LET region == call.args[3]
            season == result["Season (based on region)"]
        IN  IF region = None \/ region = <<>> THEN season = s_N_A
            ELSE /\ lower(region) = s_north => season = s_Dry
                 /\ lower(region) = s_south => season = s_Wet
                 /\ lower(region) = s_middle_belt => season = s_Transition
                 /\ lower(region) \notin {s_north, s_south, s_middle_belt} =>
                        season = s_Dry

\* an upper-case region has been mapped to its season
C4_Witness ==
    /\ IsAssessCall
    /\ call.args[3] = s_SOUTH
    /\ result["Season (based on region)"] = s_Wet

\* the key under which a script's result carries the risk level
RiskKey == IF script = "1975cc" THEN "risk_level" ELSE "Risk Level"

\* the risk an entry of the script's table stores
StoredRisk(e) == IF script = "1975cc" THEN e.risk ELSE e[1]

\* C5: in every variant's table each crop has at least one storage method
\* and every stored risk is Low, Medium or High; a query result has risk
\* level "Unknown" exactly when the queried pair is absent from the table.
C5_UnknownIffAbsent ==
    /\ \A i \in DOMAIN risk_rules :
           /\ Len(risk_rules[i][2]) >= 1
           /\ \A j \in DOMAIN risk_rules[i][2] :
                  StoredRisk(risk_rules[i][2][j][2]) \in {s_Low, s_Medium, s_High}
    /\ call.op \in {"assess", "press"} =>
           (result[RiskKey] = s_Unknown
                <=> <<call.args[1], call.args[2]>> \notin Pairs(Seed(script)))
    /\ (call.op = "batch" /\ report.error = "none") =>
           \A i \in DOMAIN call.args :
               (report.results[i]["Risk Level"] = s_Unknown
                    <=> call.args[i] \notin Pairs(Seed(script)))

\* generate_recommendation was asked for a crop of its table with a method
\* the crop does not define
C5_Witness ==
    /\ script = "1975cc"
    /\ call.op = "assess"
    /\ call.args = <<s_tomato, s_cold_room>>
    /\ result["risk_level"] = s_Unknown

\* the crops of the seeded table whose entry defines storage method m
CropsDefining(m) == {p[1] : p \in {q \in Pairs(Seed(script)) : q[2] = m}}

\* the risk the seeded storage_risk_rules of the script stores for (c, m)
SeedRisk(c, m) ==
    LET tbl == Seed(script)
        i == CHOOSE i \in DOMAIN tbl : tbl[i][1] = c
        j == CHOOSE j \in DOMAIN tbl[i][2] : tbl[i][2][j][1] = m
    IN  tbl[i][2][j][2][1]

\* C6: the comparison for a storage method M has exactly one row, crop and
\* stored risk, for each crop whose table entry defines M, and no other row;
\* no row is "Unknown".  With the six-crop table and "cold room" the rows
\* are those of tomato, cassava and plantain.
C6_ComparisonRows ==
    call.compared =>
        LET M == call.args[Len(call.args)]
        IN  /\ Len(chart_data) = Cardinality(CropsDefining(M))
            /\ \A c \in CropsDefining(M) :
                   \E i \in DOMAIN chart_data :
                       /\ chart_data[i]["Crop"] = capitalize(c)
                       /\ chart_data[i]["Risk"] = SeedRisk(c, M)
            /\ \A i \in DOMAIN chart_data :
                   /\ chart_data[i]["Risk"] # s_Unknown
                   /\ \E c \in CropsDefining(M) : chart_data[i]["Crop"] = capitalize(c)
            /\ (script = "PHL" /\ M = s_cold_room) =>
                   {chart_data[i]["Crop"] : i \in DOMAIN chart_data}
                       = {s_Tomato, s_Cassava, s_Plantain}

\* the six-crop table has been compared for "cold room"
C6_Witness ==
    /\ script = "PHL"
    /\ call.op = "compare"
    /\ call.args = <<s_cold_room>>
    /\ Len(chart_data) = 3

Levels == {s_High, s_Medium, s_Low, s_Unknown}

\* the level the seeded table of PHL.py gives a pair
LevelOf(p) == IF p \in Pairs(storage_risk_rules) THEN Stored(p[1], p[2])[1] ELSE s_Unknown

\* the number of pairs of a batch with a level
CountOf(batch, level) ==
    Cardinality({i \in DOMAIN batch : LevelOf(batch[i]) = level})

\* what a risk_counts frame reports for a level
Tally(risk_counts, level) ==
    IF level \in DOMAIN risk_counts THEN risk_counts[level] ELSE 0

\* the rearrangements of a batch
Rearranged(batch) ==
    {[i \in DOMAIN batch |-> batch[f[i]]] :
        f \in {g \in [DOMAIN batch -> DOMAIN batch] :
                  \A i, j \in DOMAIN batch : g[i] = g[j] => i = j}}

C8_PressAlwaysRenders ==
    page.pressed => page.error = "none"

\* C9: the knowledge base is never mutated: after any sequence of
\* assessments, comparisons, batch tallies, selections and button presses
\* the table equals the literal the script was started with.
C9_TableNeverMutated ==
    risk_rules = Seed(script)

\* an assessment was made and kept aside and a batch was tallied after it
C9_Witness ==
    /\ script = "PHL"
    /\ pinned.args = <<s_durian, s_sack, None>>
    /\ call.op = "batch"
    /\ Len(call.args) = 2
    /\ risk_rules = storage_risk_rules

\* C10: two calls of assess_storage_risk with identical crop, method and
\* region, wherever they fall in a sequence of other calls, return results
\* equal in every field.
C10_SameCallSameResult ==
    /\ (IsAssessCall /\ pinned.args = call.args) => result = pinned.result
    /\ (script = "PHL" /\ call.op = "batch" /\ report.error = "none") =>
           \A i \in DOMAIN call.args :
               pinned.args = <<call.args[i][1], call.args[i][2], None>> =>
                   report.results[i] = pinned.result

\* a pair was assessed and kept aside, and a later batch assessed it again
C10_Witness ==
    /\ script = "PHL"
    /\ pinned.args = <<s_tomato, s_sack, None>>
    /\ call.op = "batch"
    /\ call.args = <<<<s_durian, s_box>>, <<s_tomato, s_sack>>>>
    /\ report.results[2] = pinned.result

-----------------------------------------------------------------------------
\* the fields of a result other than the season
OtherFields ==
    {"Crop", "Storage Method", "Risk Level", "Justification", "Recommendation"}

\* C11: the region argument of assess_storage_risk influences only the
\* season field: two calls with the same crop and method and any two
\* regions (absent included) agree on Crop, Storage Method, Risk Level,
\* Justification and Recommendation, and two calls with the same region
\* agree on the season whatever their crop and method.
C11_RegionOnlySeason ==
    (IsAssessCall /\ pinned.args # <<>>) =>
        /\ (pinned.args[1] = call.args[1] /\ pinned.args[2] = call.args[2]) =>
               \A f \in OtherFields : result[f] = pinned.result[f]
        /\ pinned.args[3] = call.args[3] =>
               result["Season (based on region)"] =
                   pinned.result["Season (based on region)"]

\* the same pair was assessed with no region and then with "south", and
\* the seasons differ
C11_Witness ==
    /\ IsAssessCall
    /\ pinned.args = <<s_tomato, s_sack, None>>
    /\ call.args = <<s_tomato, s_sack, s_south>>
    /\ result["Season (based on region)"] = s_Wet
    /\ pinned.result["Season (based on region)"] = s_N_A
    /\ result["Recommendation"] = pinned.result["Recommendation"]

-----------------------------------------------------------------------------
\* the last operation was a press of the result button
IsPress == script \in Dashboards /\ call.op = "press"

\* C12: in the interactive variants, after any sequence of crop
\* selections, storage selections and button presses, the storage method
\* held by the selector is one of the methods of the selected crop, so the
\* pair a press hands to the lookup function is in the table and the
\* lookup does not return "Unknown".
C12_PressedPairInTable ==
    /\ script \in Dashboards =>
           /\ HasKey(Seed(script), crop)
           /\ HasKey(Item(Seed(script), crop), storage)
    /\ IsPress =>
           /\ call.args = <<crop, storage>>
           /\ <<call.args[1], call.args[2]>> \in Pairs(Seed(script))
           /\ result[RiskKey] \in {s_High, s_Medium, s_Low}

\* another crop than the first was selected, with a method the first crop
\* does not have, and the button was pressed
C12_Witness ==
    /\ IsPress
    /\ script = "1975cc"
    /\ call.args = <<s_tomato, s_cold_chain>>
    /\ ~HasKey(Item(CROP_RISK_RULES, s_maize), s_cold_chain)
    /\ result["risk_level"] = s_Low
    /\ page.pressed /\ page.error = "none"

-----------------------------------------------------------------------------
\* the entry the literal CROP_RISK_RULES stores for a pair it holds
StoredRule(c, m) ==
    LET i == CHOOSE i \in DOMAIN CROP_RISK_RULES : CROP_RISK_RULES[i][1] = c
        j == CHOOSE j \in DOMAIN CROP_RISK_RULES[i][2] :
                 CROP_RISK_RULES[i][2][j][1] = m
    IN  CROP_RISK_RULES[i][2][j][2]

\* the logistics options the literal LOGISTICS_OPTIONS lists for a crop
Logistics(c) ==
    LOGISTICS_OPTIONS[CHOOSE i \in DOMAIN LOGISTICS_OPTIONS :
                          LOGISTICS_OPTIONS[i][1] = c][2]

\* the last operation ran generate_recommendation, directly or by the button
IsGenerate == script = "1975cc" /\ call.op \in {"assess", "press"}

\* C13: LOGISTICS_OPTIONS has an entry for every crop of CROP_RISK_RULES;
\* the result of generate_recommendation has risk_level "Unknown" and the
\* single action item "Consult agricultural officer" exactly when the pair
\* is absent from CROP_RISK_RULES; otherwise it has the stored risk and
\* reason and exactly two action items, the stored recommendation and then
\* the line of the crop's logistics options; storage_method is the input.
C13_UnknownOnlyFromRules ==
    /\ \A i \in DOMAIN CROP_RISK_RULES :
           \E j \in DOMAIN LOGISTICS_OPTIONS :
               LOGISTICS_OPTIONS[j][1] = CROP_RISK_RULES[i][1]
    /\ IsGenerate =>
           /\ result["storage_method"] = call.args[2]
           /\ (result["risk_level"] = s_Unknown
                  /\ result["action_items"] = <<T("Consult agricultural officer")>>)
                 <=> <<call.args[1], call.args[2]>> \notin Pairs(CROP_RISK_RULES)
           /\ <<call.args[1], call.args[2]>> \in Pairs(CROP_RISK_RULES) =>
                  LET e == StoredRule(call.args[1], call.args[2])
                      opts == Logistics(call.args[1])
                  IN  /\ result["risk_level"] = e.risk
                      /\ result["risk_reason"] = e.reason
                      /\ Len(result["action_items"]) = 2
                      /\ result["action_items"][1] = e.recommendation
                      /\ result["action_items"][2] =
                             <<"Logistics options: ">> \o opts[1] \o <<", ">>
                                 \o opts[2] \o <<", ">> \o opts[3]

\* a stored pair was asked for and the report carries the recommendation
\* and the logistics line of the crop
C13_Witness ==
    /\ script = "1975cc"
    /\ call.op = "assess"
    /\ call.args = <<s_yam, s_pit>>
    /\ result["risk_level"] = s_High
    /\ result["action_items"] =
           <<<<"Line with straw">>,
             <<"Logistics options: ", "Village markets", ", ",
               "Interstate trade", ", ", "Export">>>>

-----------------------------------------------------------------------------
\* the season field of the last result
Season == result["Season (based on region)"]

\* C14: unlike crop and method, the region is lower-cased before the
\* region-to-season lookup: "SOUTH" and "South" yield "Wet" and
\* "Middle-Belt" yields "Transition", while the crop "Tomato" is still a
\* miss; an empty-string region is treated as absent and yields "N/A",
\* not "Dry".
C14_RegionCaseInsensitive ==
    IsAssessCall =>
        /\ call.args[3] \in {s_SOUTH, s_South} => Season = s_Wet
        /\ call.args[3] = s_Middle_Belt => Season = s_Transition
        /\ call.args[3] = <<>> => Season = s_N_A /\ Season # s_Dry
        /\ (pinned.args # <<>> /\ Truthy(call.args[3]) /\ Truthy(pinned.args[3])
              /\ lower(call.args[3]) = lower(pinned.args[3])) =>
               Season = pinned.result["Season (based on region)"]
        /\ (call.args[1] = s_Tomato /\ call.args[2] = s_sack) =>
               result["Risk Level"] = s_Unknown

\* a hit on (tomato, sack) was assessed with region "south" and again with
\* region "SOUTH", and both seasons are "Wet"
C14_Witness ==
    /\ IsAssessCall
    /\ pinned.args = <<s_tomato, s_sack, s_south>>
    /\ call.args = <<s_tomato, s_sack, s_SOUTH>>
    /\ Season = s_Wet
    /\ pinned.result["Season (based on region)"] = s_Wet
    /\ result["Risk Level"] = s_High

=============================================================================
